---------------------------- MODULE Spec2Model ----------------------------
(***************************************************************************)
(* DoggoTranslator: a text-substitution translator.  A sentence is a       *)
(* sequence of one-character strings; a translation map holds a `words`    *)
(* table and an optional `suffixes` table, each an insertion-ordered       *)
(* sequence of [k, v] pairs with unique keys (a JavaScript object).        *)
(***************************************************************************)
EXTENDS Integers, Sequences, FiniteSets, TLC

(***************************************************************************)
(* Bounds of the model.                                                    *)
(***************************************************************************)
MaxLen == 3
MaxPairs == 2

(***************************************************************************)
(* Characters and the string primitives of the language runtime.           *)
(***************************************************************************)
LowerLetters == <<"a", "b", "k", "o", "r">>
UpperLetters == <<"A", "B", "K", "O", "R">>
Digits == <<"0", "1", "2", "3", "4", "5", "6", "7", "8", "9">>

Range(f) == {f[i] : i \in DOMAIN f}

\* String.prototype.toUpperCase on one character.
UpperChar(c) ==
    IF c \in Range(LowerLetters)
    THEN UpperLetters[CHOOSE i \in DOMAIN LowerLetters : LowerLetters[i] = c]
    ELSE c

\* String.prototype.toUpperCase.
toUpperCase(s) == [i \in 1..Len(s) |-> UpperChar(s[i])]

\* The regular expression class \w.
IsWordChar(c) ==
    c \in Range(LowerLetters) \cup Range(UpperLetters) \cup Range(Digits) \cup {"_"}

\* capitalizeFirstCharacter: charAt(0).toUpperCase() followed by slice(1).
capitalizeFirstCharacter(target) ==
    IF target = << >> THEN << >>
    ELSE <<UpperChar(target[1])>> \o SubSeq(target, 2, Len(target))

\* The characters of the class [-[\]{}()*+?.,\\^$|#\s] in escapeRegex.
EscapedChars ==
    {"-", "[", "]", "{", "}", "(", ")", "*", "+", "?", ".", ",", "\\", "^",
     "$", "|", "#", " "}

RECURSIVE escapeRegex(_)
\* escapeRegex: every character of the class is preceded by a backslash.
escapeRegex(target) ==
    IF target = << >> THEN << >>
    ELSE (IF target[1] \in EscapedChars
          THEN <<"\\", target[1]>> ELSE <<target[1]>>)
         \o escapeRegex(Tail(target))

RECURSIVE Compile(_)
\* new RegExp(source): the atoms of the pattern between the anchors.  A
\* backslash makes the next character a literal; a bare "." matches any
\* character; every other character of the model's alphabet is a literal.
Compile(source) ==
    IF source = << >> THEN << >>
    ELSE IF source[1] = "\\" /\ Len(source) >= 2
         THEN <<[any |-> FALSE, ch |-> source[2]]>>
              \o Compile(SubSeq(source, 3, Len(source)))
         ELSE <<[any |-> source[1] = ".", ch |-> source[1]]>>
              \o Compile(Tail(source))

\* One atom against one character under the `i` flag (canonicalised by
\* toUpperCase).
AtomMatches(atom, c) == atom.any \/ UpperChar(atom.ch) = UpperChar(c)

\* Is position i of input (1..Len) a word character?  Outside the string
\* counts as a non-word character.
WordAt(input, i) == i >= 1 /\ i <= Len(input) /\ IsWordChar(input[i])

\* The assertion \b just before position i (i in 1..Len+1).
Boundary(input, i) == WordAt(input, i - 1) # WordAt(input, i)

\* Does the pattern match at position i?  leftAnchor is the leading \b of
\* translateWholeWord; the trailing \b is always there.
MatchAt(input, atoms, leftAnchor, i) ==
    /\ i + Len(atoms) - 1 <= Len(input)
    /\ leftAnchor => Boundary(input, i)
    /\ \A k \in 1..Len(atoms) : AtomMatches(atoms[k], input[i + k - 1])
    /\ Boundary(input, i + Len(atoms))

\* WholeWordCallback without the capitalized-first-letter branch.
WholeWordCallback_NoCapitalize(match, replace) ==
    IF match = toUpperCase(match) THEN toUpperCase(replace) ELSE replace

\* The replacer callback of translateWholeWord.
WholeWordCallback(match, replace) ==
    IF match = toUpperCase(match) THEN toUpperCase(replace)
    ELSE IF match = capitalizeFirstCharacter(match)
         THEN capitalizeFirstCharacter(replace)
         ELSE replace

\* SuffixCallback with the capitalized-first-letter branch of the whole-word
\* callback added.
SuffixCallback_Capitalizing(match, replace) ==
    IF match = toUpperCase(match) THEN toUpperCase(replace)
    ELSE IF match = capitalizeFirstCharacter(match)
         THEN capitalizeFirstCharacter(replace)
         ELSE replace

\* The replacer callback of transformSuffixes.
SuffixCallback(match, replace) ==
    IF match = toUpperCase(match) THEN toUpperCase(replace) ELSE replace

RECURSIVE ReplaceMatches(_, _, _, _, _)
\* String.prototype.replace with a global pattern and a replacer function:
\* matches are found left to right from position i on the original input and
\* do not overlap; after an empty match the scan advances by one character.
ReplaceMatches(input, atoms, whole, replace, i) ==
    IF i > Len(input) + 1 THEN << >>
    ELSE IF MatchAt(input, atoms, whole, i)
         THEN LET match == SubSeq(input, i, i + Len(atoms) - 1)
                  out == IF whole THEN WholeWordCallback(match, replace)
                                  ELSE SuffixCallback(match, replace)
              IN  IF atoms = << >>
                  THEN out \o (IF i <= Len(input) THEN <<input[i]>> ELSE << >>)
                           \o ReplaceMatches(input, atoms, whole, replace, i + 1)
                  ELSE out \o ReplaceMatches(input, atoms, whole, replace,
                                             i + Len(atoms))
         ELSE (IF i <= Len(input) THEN <<input[i]>> ELSE << >>)
              \o ReplaceMatches(input, atoms, whole, replace, i + 1)

\* translateWholeWord: /\b(regex)\b/gi.
translateWholeWord(input, regex, replace) ==
    ReplaceMatches(input, Compile(escapeRegex(regex)), TRUE, replace, 1)

\* transformSuffixes: /(regex)\b/gi.
transformSuffixes(input, regex, replace) ==
    ReplaceMatches(input, Compile(escapeRegex(regex)), FALSE, replace, 1)

(***************************************************************************)
(* Property enumeration: `for (const key in table)`.                       *)
(***************************************************************************)
DigitValue(c) == (CHOOSE i \in DOMAIN Digits : Digits[i] = c) - 1

RECURSIVE IndexValue(_)
\* The number a string of digits denotes.
IndexValue(key) ==
    IF key = << >> THEN 0
    ELSE 10 * IndexValue(SubSeq(key, 1, Len(key) - 1)) + DigitValue(key[Len(key)])

\* Is the property key a canonical array index ("0", "1", "42", never "01")?
\* An array index is below 2^32 - 1; every number of at most nine digits is,
\* and the model holds no longer key.
IsArrayIndex(key) ==
    /\ key # << >>
    /\ Len(key) <= 9
    /\ \A i \in DOMAIN key : key[i] \in Range(Digits)
    /\ key[1] = "0" => Len(key) = 1

RECURSIVE AscendingIndexPairs(_, _)
\* The pairs of table at the positions in `left`, by ascending index value.
AscendingIndexPairs(table, left) ==
    IF left = {} THEN << >>
    ELSE LET i == CHOOSE j \in left :
                    \A h \in left : IndexValue(table[j].k) <= IndexValue(table[h].k)
         IN  <<table[i]>> \o AscendingIndexPairs(table, left \ {i})

IsNamedPair(p) == ~IsArrayIndex(p.k)

\* ForInOrder as plain insertion order.
ForInOrder_Insertion(table) == table

\* The order in which for-in visits the own properties of an object: the
\* array-index keys in ascending numeric order, then the other keys in
\* insertion order.
ForInOrder(table) ==
    AscendingIndexPairs(table, {i \in DOMAIN table : IsArrayIndex(table[i].k)})
    \o SelectSeq(table, IsNamedPair)

(***************************************************************************)
(* The two replacement loops and translateSentence.                        *)
(***************************************************************************)
\* The (search, replace) arguments the loop passes for each visited pair.
Directed(pairs, reverse) ==
    [i \in DOMAIN pairs |->
        IF ~reverse THEN [search |-> pairs[i].k, replace |-> pairs[i].v]
                    ELSE [search |-> pairs[i].v, replace |-> pairs[i].k]]

RECURSIVE WordSteps(_, _)
\* The successive values of sourceSentence in replaceWholeWords: the value
\* on entry, then the value after each pair.
WordSteps(applied, sourceSentence) ==
    IF applied = << >> THEN <<sourceSentence>>
    ELSE <<sourceSentence>>
         \o WordSteps(Tail(applied),
                      translateWholeWord(sourceSentence, applied[1].search,
                                         applied[1].replace))

RECURSIVE SuffixSteps(_, _)
\* The successive values of sourceSentence in replaceSuffixes.
SuffixSteps(applied, sourceSentence) ==
    IF applied = << >> THEN <<sourceSentence>>
    ELSE <<sourceSentence>>
         \o SuffixSteps(Tail(applied),
                        transformSuffixes(sourceSentence, applied[1].search,
                                          applied[1].replace))

\* replaceWholeWords that always walks the table forward.
replaceWholeWords_IgnoreReverse(words, reverse, sourceSentence) ==
    LET applied == Directed(ForInOrder(words), FALSE)
    IN  [applied |-> applied, steps |-> WordSteps(applied, sourceSentence)]

\* replaceWholeWords, with the pairs it applied and every intermediate value.
replaceWholeWords(words, reverse, sourceSentence) ==
    LET applied == Directed(ForInOrder(words), reverse)
    IN  [applied |-> applied, steps |-> WordSteps(applied, sourceSentence)]

\* replaceSuffixes, likewise.
replaceSuffixes(suffixes, reverse, sourceSentence) ==
    LET applied == Directed(ForInOrder(suffixes), reverse)
    IN  [applied |-> applied, steps |-> SuffixSteps(applied, sourceSentence)]

defaultResponse == <<"B", "o", "r", "k">>

Last(s) == s[Len(s)]

NoLoop == [applied |-> << >>, steps |-> << >>]

\* translateSentence without the empty-sentence return.
translateSentence_NoEmptyGuard(translationsMap, sourceSentence, reverse) ==
    IF translationsMap = << >>
    THEN [input |-> sourceSentence, reverse |-> reverse, threw |-> TRUE,
          result |-> << >>, mapRead |-> << >>,
          words |-> NoLoop, suffixes |-> NoLoop]
    ELSE LET map == translationsMap[1]
             w == replaceWholeWords(map.words, reverse, sourceSentence)
             s == IF map.hasSuffixes
                  THEN replaceSuffixes(map.suffixes, reverse, Last(w.steps))
                  ELSE NoLoop
         IN  [input |-> sourceSentence, reverse |-> reverse, threw |-> FALSE,
              result |-> IF map.hasSuffixes THEN Last(s.steps) ELSE Last(w.steps),
              mapRead |-> <<map>>, words |-> w, suffixes |-> s]

\* translateSentence as a record of the call: what it returned, whether it
\* read the loader's map, whether it threw (a map that was never loaded),
\* and the trace of both loops.  translationsMap is << >> or <<map>>.
translateSentence(translationsMap, sourceSentence, reverse) ==
    IF sourceSentence = << >>
    THEN [input |-> sourceSentence, reverse |-> reverse, threw |-> FALSE,
          result |-> defaultResponse, mapRead |-> << >>,
          words |-> NoLoop, suffixes |-> NoLoop]
    ELSE IF translationsMap = << >>
    THEN [input |-> sourceSentence, reverse |-> reverse, threw |-> TRUE,
          result |-> << >>, mapRead |-> << >>,
          words |-> NoLoop, suffixes |-> NoLoop]
    ELSE LET map == translationsMap[1]
             w == replaceWholeWords(map.words, reverse, sourceSentence)
             s == IF map.hasSuffixes
                  THEN replaceSuffixes(map.suffixes, reverse, Last(w.steps))
                  ELSE NoLoop
         IN  [input |-> sourceSentence, reverse |-> reverse, threw |-> FALSE,
              result |-> IF map.hasSuffixes THEN Last(s.steps) ELSE Last(w.steps),
              mapRead |-> <<map>>, words |-> w, suffixes |-> s]

(***************************************************************************)
(* The collaborators: the language catalog (TokensService), the map loader *)
(* (LocaleLoaderService) and the error reporter (ErrorService).            *)
(***************************************************************************)
defaultLanguage == "english"
userDefined == "userDefined"

Pair(k, v) == [k |-> k, v |-> v]

\* The bundled resource of the default language (a stand-in for its file).
EnglishMap ==
    [words |-> <<Pair(<<"a">>, <<"b", "a">>)>>, hasSuffixes |-> TRUE,
     suffixes |-> <<Pair(<<"1">>, <<"a">>)>>]

\* The registry certainly lists the default language; whether it also lists
\* the user-defined sentinel is not known, so both registries are modelled.
Catalogs == {{defaultLanguage}, {defaultLanguage, userDefined}}

\* TokensService.languageAvailable: membership in the catalog.
languageAvailable(languageToken, registry) == languageToken \in registry

\* The map loadLibraryTranslations installs: the resource bundled for the
\* token, and the default language's resource when there is none.
Bundled == {defaultLanguage}
Resource(languageToken) == EnglishMap
LibraryTranslations(languageToken) ==
    IF languageToken \in Bundled THEN Resource(languageToken)
    ELSE Resource(defaultLanguage)

Called(fn, arg) == [fn |-> fn, arg |-> arg]

\* LocaleLoaderService.loadLibraryTranslations on the instance `self`.
loadLibraryTranslations(self, languageToken) ==
    [self EXCEPT !.translationsMap = <<LibraryTranslations(languageToken)>>,
                 !.calls = Append(@, Called("loadLibraryTranslations", languageToken))]

\* LocaleLoaderService.setTranslationsMap.
setTranslationsMap(self, map) ==
    [self EXCEPT !.translationsMap = <<map>>,
                 !.calls = Append(@, Called("setTranslationsMap", ""))]

\* ErrorService.logError: reports and returns.
logError(self) == [self EXCEPT !.calls = Append(@, Called("logError", ""))]

\* ErrorService.throw: reports and aborts the operation.
throw(self) ==
    [self EXCEPT !.threw = TRUE, !.calls = Append(@, Called("throw", ""))]

(***************************************************************************)
(* Construction and language selection.  An instance is the record         *)
(* [languageToken, translationsMap, calls, threw]: the two fields (each    *)
(* << >> while unset), the collaborator calls of the running operation in  *)
(* order, and whether the operation threw.                                 *)
(***************************************************************************)
Fresh == [languageToken |-> << >>, translationsMap |-> << >>, calls |-> << >>,
          threw |-> FALSE]

\* setLanguage that returns after the fallback without loading a map.
setLanguage_NoLoadOnFallback(self, languageToken, registry) ==
    IF ~languageAvailable(languageToken, registry)
    THEN [logError(self) EXCEPT !.languageToken = <<defaultLanguage>>]
    ELSE loadLibraryTranslations(
             [self EXCEPT !.languageToken = <<languageToken>>], languageToken)

\* setLanguage that loads the default language's map on the fallback.
setLanguage_LoadsDefault(self, languageToken, registry) ==
    IF ~languageAvailable(languageToken, registry)
    THEN loadLibraryTranslations(
             [logError(self) EXCEPT !.languageToken = <<defaultLanguage>>],
             defaultLanguage)
    ELSE loadLibraryTranslations(
             [self EXCEPT !.languageToken = <<languageToken>>], languageToken)

\* setLanguage.
setLanguage(self, languageToken, registry) ==
    IF ~languageAvailable(languageToken, registry)
    THEN loadLibraryTranslations(
             [logError(self) EXCEPT !.languageToken = <<defaultLanguage>>],
             languageToken)
    ELSE loadLibraryTranslations(
             [self EXCEPT !.languageToken = <<languageToken>>], languageToken)

\* A configuration: `given` is FALSE for a missing argument; each option is
\* << >> when absent.  The empty token "" is present and falsy.
Truthy(option) == option # << >> /\ option # <<"">>

\* configValidation that rejects only a missing configuration.
InvalidConfig_MissingOnly(config) == ~config.given

\* The condition of configValidation under which it throws.
InvalidConfig(config) ==
    \/ ~config.given
    \/ ~Truthy(config.languageToken) /\ config.userTranslationsMap = << >>

\* What `config.languageToken` evaluates to: the token, or undefined.
Undefined == "<undefined>"
TokenOf(config) ==
    IF config.languageToken = << >> THEN Undefined ELSE config.languageToken[1]

\* Reading a property of a missing configuration: a TypeError.
TypeError(self) == [self EXCEPT !.threw = TRUE]

\* setUpTranslator that installs the custom map before selecting the language.
setUpTranslator_LoadAfterInstall(self, config, registry) ==
    IF ~config.given THEN TypeError(self)
    ELSE IF config.userTranslationsMap = << >>
    THEN setLanguage(self, TokenOf(config), registry)
    ELSE setLanguage(setTranslationsMap(self, config.userTranslationsMap[1]),
                     userDefined, registry)

\* setUpTranslator that stores the sentinel itself and never calls setLanguage.
setUpTranslator_Bypass(self, config, registry) ==
    IF ~config.given THEN TypeError(self)
    ELSE IF config.userTranslationsMap = << >>
    THEN setLanguage(self, TokenOf(config), registry)
    ELSE setTranslationsMap([self EXCEPT !.languageToken = <<userDefined>>],
                            config.userTranslationsMap[1])

\* setUpTranslator.
setUpTranslator(self, config, registry) ==
    IF ~config.given THEN TypeError(self)
    ELSE IF config.userTranslationsMap = << >>
    THEN setLanguage(self, TokenOf(config), registry)
    ELSE setTranslationsMap(setLanguage(self, userDefined, registry),
                            config.userTranslationsMap[1])

\* The constructor: configValidation, then setUpTranslator.
constructor(config, registry) ==
    IF InvalidConfig(config) THEN throw(Fresh)
    ELSE setUpTranslator(Fresh, config, registry)

(***************************************************************************)
(* The inputs of the model.                                                *)
(***************************************************************************)
SentenceChars == {"a", "A", "1", " "}
Sentences == UNION {[1..n -> SentenceChars] : n \in 0..MaxLen}

\* The pairs the words tables are built from: a two-letter key, a one-letter
\* key, two array-index keys, values that are themselves keys, a value two
\* keys share, and a value that is no word.
WordPairs ==
    {Pair(<<"a", "a">>, <<"b", "a">>), Pair(<<"a", "a">>, <<"a">>),
     Pair(<<"a", "a">>, <<".">>), Pair(<<"a">>, <<"b", "a">>),
     Pair(<<"1">>, <<"a">>), Pair(<<"2">>, <<"b", "a">>)}
SuffixKeys == {<<"a", "a">>, <<"a">>}
SuffixValues == {<<"b", "a">>, <<"1">>}
SuffixPairs == {Pair(k, v) : k \in SuffixKeys, v \in SuffixValues}

\* The tables of at most MaxPairs pairs with unique keys, in every insertion
\* order.
Tables(pairs) ==
    {t \in UNION {[1..n -> pairs] : n \in 0..MaxPairs} :
        \A i, j \in DOMAIN t : t[i].k = t[j].k => i = j}

WordMaps ==
    {[words |-> w, hasSuffixes |-> FALSE, suffixes |-> << >>] :
        w \in Tables(WordPairs)}

SuffixMaps ==
    {[words |-> w, hasSuffixes |-> TRUE, suffixes |-> s] :
        w \in {<< >>, <<Pair(<<"a", "a">>, <<"b", "a">>)>>},
        s \in Tables(SuffixPairs)}

\* The maps, tokens and sentences the lifecycle is exercised with.
SampleMaps ==
    {[words |-> <<Pair(<<"a", "a">>, <<"1">>), Pair(<<"1">>, <<"b", "a">>)>>,
      hasSuffixes |-> FALSE, suffixes |-> << >>],
     [words |-> <<Pair(<<"a", "a">>, <<"b", "a">>)>>,
      hasSuffixes |-> TRUE, suffixes |-> <<Pair(<<"a">>, <<"1">>)>>],
     [words |-> << >>, hasSuffixes |-> TRUE, suffixes |-> << >>]}
SampleTokens == {defaultLanguage, userDefined, "asdf", ""}
SampleSentences ==
    {<< >>, <<"A", "a">>, <<"a", "a", " ", "1">>, <<"1", "A">>, <<"a", ".">>}

NoConfig == [given |-> FALSE, languageToken |-> << >>, userTranslationsMap |-> << >>]
Configs ==
    {NoConfig}
    \cup {[given |-> TRUE, languageToken |-> t, userTranslationsMap |-> m] :
            t \in {<< >>} \cup {<<tok>> : tok \in SampleTokens},
            m \in {<< >>} \cup {<<map>> : map \in SampleMaps}}

(***************************************************************************)
(* The state machine.                                                      *)
(***************************************************************************)
VARIABLES
    catalog,          \* the tokens the language catalog lists
    status,           \* "new", "ready" (constructed) or "failed" (it threw)
    languageToken,    \* this.languageToken: << >> or <<token>>
    translationsMap,  \* the loader's map: << >> or <<map>>
    lastOp,           \* the last constructor or setLanguage call
    call,             \* the last translateSentence call since: << >> or <<c>>
    origin            \* << >>, or <<s>> when call translated back the
                      \* forward translation of s

vars == <<catalog, status, languageToken, translationsMap, lastOp, call, origin>>

NoOp == [name |-> "none", config |-> NoConfig, token |-> "", calls |-> << >>]

Init ==
    /\ catalog \in Catalogs
    /\ status = "new"
    /\ languageToken = << >>
    /\ translationsMap = << >>
    /\ lastOp = NoOp
    /\ call = << >>
    /\ origin = << >>

\* new DoggoTranslator(config).
Construct ==
    /\ status = "new"
    /\ \E config \in Configs :
          LET self == constructor(config, catalog)
          IN  /\ status' = IF self.threw THEN "failed" ELSE "ready"
              /\ languageToken' = self.languageToken
              /\ translationsMap' = self.translationsMap
              /\ lastOp' = [name |-> "constructor", config |-> config,
                            token |-> "", calls |-> self.calls]
    /\ UNCHANGED <<catalog, call, origin>>

\* translator.setLanguage(token).
SetLanguage ==
    /\ status = "ready"
    /\ \E token \in SampleTokens :
          LET self == setLanguage([Fresh EXCEPT !.languageToken = languageToken,
                                                !.translationsMap = translationsMap],
                                  token, catalog)
          IN  /\ languageToken' = self.languageToken
              /\ translationsMap' = self.translationsMap
              /\ lastOp' = [name |-> "setLanguage", config |-> NoConfig,
                            token |-> token, calls |-> self.calls]
    /\ call' = << >>
    /\ origin' = << >>
    /\ UNCHANGED <<catalog, status>>

\* translator.translateSentence(sentence, reverse), sentence drawn from S.
TranslateFrom(S) ==
    /\ status = "ready"
    /\ \E sentence \in S, reverse \in BOOLEAN :
          call' = <<translateSentence(translationsMap, sentence, reverse)>>
    /\ origin' = << >>
    /\ UNCHANGED <<catalog, status, languageToken, translationsMap, lastOp>>

\* translateSentence(forward, true), forward being what the last call, a
\* forward translation, returned.
TranslateBack ==
    /\ status = "ready"
    /\ call # << >>
    /\ origin = << >>
    /\ ~call[1].reverse
    /\ ~call[1].threw
    /\ call' = <<translateSentence(translationsMap, call[1].result, TRUE)>>
    /\ origin' = <<call[1].input>>
    /\ UNCHANGED <<catalog, status, languageToken, translationsMap, lastOp>>

Translate == TranslateFrom(SampleSentences)

Next == Construct \/ SetLanguage \/ Translate \/ TranslateBack

Spec == Init /\ [][Next]_vars

\* The translator constructed over one user map out of `maps`.
InitOver(maps) ==
    /\ catalog = {defaultLanguage, userDefined}
    /\ \E map \in maps :
          LET config == [given |-> TRUE, languageToken |-> << >>,
                         userTranslationsMap |-> <<map>>]
              self == constructor(config, catalog)
          IN  /\ status = "ready"
              /\ languageToken = self.languageToken
              /\ translationsMap = self.translationsMap
              /\ lastOp = [name |-> "constructor", config |-> config,
                           token |-> "", calls |-> self.calls]
    /\ call = << >>
    /\ origin = << >>

\* One call on the fresh translator, over every sentence of the bound.
TranslateAny == call = << >> /\ TranslateFrom(Sentences)

\* translateSentence over every words-only map and every sentence.
InitWords == InitOver(WordMaps)
NextWords == TranslateAny \/ TranslateBack
SpecWords == InitWords /\ [][NextWords]_vars

\* translateSentence over the maps with a suffixes table.
InitSuffixes == InitOver(SuffixMaps)
NextSuffixes == TranslateAny \/ TranslateBack
SpecSuffixes == InitSuffixes /\ [][NextSuffixes]_vars
(***************************************************************************)
(* Properties of construction and language selection.                      *)
(***************************************************************************)
Made == call # << >>
Translated == call # << >> /\ call[1].input # << >>
CallNames(calls) == [i \in DOMAIN calls |-> calls[i].fn]
Constructed == lastOp.name = "constructor"
CustomMapGiven == Constructed /\ lastOp.config.userTranslationsMap # << >>

\* C1: translateSentence('') returns 'Bork' for either value of reverse,
\* whatever the configuration and the active map, and does not read the
\* active translation map.
C1_EmptySentenceReturnsDefault ==
    (Made /\ call[1].input = << >>) =>
        /\ call[1].result = <<"B", "o", "r", "k">>
        /\ call[1].mapRead = << >>
        /\ ~call[1].threw

\* An empty sentence translated in reverse by a translator whose active map
\* is a caller-supplied map with a non-empty words table.
C1_Witness ==
    /\ Made /\ call[1].input = << >> /\ call[1].reverse
    /\ CustomMapGiven
    /\ translationsMap[1].words # << >>

\* A configuration with neither a usable token nor a custom map, the missing
\* configuration included.
HasNeither(config) ==
    \/ ~config.given
    \/ /\ config.languageToken \in {<< >>, <<"">>}
       /\ config.userTranslationsMap = << >>

C5_CustomMapIsActive ==
    CustomMapGiven =>
        /\ status = "ready"
        /\ translationsMap = lastOp.config.userTranslationsMap
        /\ Translated =>
              /\ ~call[1].threw
              /\ call[1].mapRead = lastOp.config.userTranslationsMap

\* A sentence translated after construction with both a custom map and the
\* token of the default language, the custom map differing from that
\* language's map.
C5_Witness ==
    /\ CustomMapGiven
    /\ lastOp.config.languageToken = <<defaultLanguage>>
    /\ lastOp.config.userTranslationsMap # <<LibraryTranslations(defaultLanguage)>>
    /\ Translated
    /\ call[1].result # call[1].input

\* The token the last operation asked setLanguage to select, as << >> or <<t>>.
Requested ==
    IF lastOp.name = "setLanguage" THEN <<lastOp.token>>
    ELSE IF Constructed /\ ~HasNeither(lastOp.config)
         THEN IF lastOp.config.userTranslationsMap = << >>
              THEN lastOp.config.languageToken
              ELSE <<userDefined>>
         ELSE << >>

\* The token was selected by name (construction without a custom map, or a
\* setLanguage call) and the catalog does not list it.
UnavailableRequested ==
    /\ Requested # << >>
    /\ ~CustomMapGiven
    /\ Requested[1] \notin catalog

C8_LoaderBypassed ==
    CustomMapGiven =>
        /\ languageToken = <<userDefined>>
        /\ translationsMap = lastOp.config.userTranslationsMap
        /\ "loadLibraryTranslations" \notin Range(CallNames(lastOp.calls))
        /\ "logError" \notin Range(CallNames(lastOp.calls))

\* C8, amended: a custom map makes construction call setLanguage with the
\* sentinel, which asks the loader for the sentinel's map once, and then
\* install the custom map over what was loaded.  The stored token is the
\* sentinel, and no error is logged, exactly when the catalog lists the
\* sentinel; otherwise the token is the default and one error is logged.
C8_SentinelSelectedThroughSetLanguage ==
    CustomMapGiven =>
        /\ translationsMap = lastOp.config.userTranslationsMap
        /\ IF userDefined \in catalog
           THEN /\ languageToken = <<userDefined>>
                /\ lastOp.calls = <<Called("loadLibraryTranslations", userDefined),
                                    Called("setTranslationsMap", "")>>
           ELSE /\ languageToken = <<defaultLanguage>>
                /\ lastOp.calls = <<Called("logError", ""),
                                    Called("loadLibraryTranslations", userDefined),
                                    Called("setTranslationsMap", "")>>

\* Construction with a custom map under a catalog that lists the sentinel.
C8_Witness ==
    /\ CustomMapGiven
    /\ userDefined \in catalog
    /\ languageToken = <<userDefined>>
    /\ lastOp.config.languageToken = << >>

\* C9: after setLanguage(t) the stored token is t when the catalog lists t
\* and the default token otherwise, so the token of a constructed translator
\* is always listed; when t is not listed exactly one error is logged and the
\* loader is asked for the map of t itself.
C9_StoredTokenAndLoadRequest ==
    /\ status = "ready" =>
          languageToken # << >> /\ languageToken[1] \in catalog
    /\ (status = "ready" /\ Requested # << >>) =>
          LET t == Requested[1]
              own == IF CustomMapGiven
                     THEN <<Called("setTranslationsMap", "")>> ELSE << >>
          IN  IF t \in catalog
              THEN /\ languageToken = <<t>>
                   /\ lastOp.calls = <<Called("loadLibraryTranslations", t)>> \o own
              ELSE /\ languageToken = <<defaultLanguage>>
                   /\ lastOp.calls = <<Called("logError", ""),
                                       Called("loadLibraryTranslations", t)>> \o own

\* setLanguage('asdf') has fallen back to the default token under a catalog
\* that lists the sentinel too.
C9_Witness ==
    /\ lastOp.name = "setLanguage"
    /\ lastOp.token = "asdf"
    /\ languageToken = <<defaultLanguage>>
    /\ userDefined \in catalog

(***************************************************************************)
(* Properties of the substitution algorithm.  A sentence is read as its    *)
(* runs: the maximal stretches of word characters and the stretches        *)
(* between them.                                                           *)
(***************************************************************************)
RunEnd(s, i) ==
    CHOOSE j \in i..Len(s) :
        /\ \A h \in i..j : WordAt(s, h) = WordAt(s, i)
        /\ j = Len(s) \/ WordAt(s, j + 1) # WordAt(s, i)

RECURSIVE RunsFrom(_, _)
RunsFrom(s, i) ==
    IF i > Len(s) THEN << >>
    ELSE <<SubSeq(s, i, RunEnd(s, i))>> \o RunsFrom(s, RunEnd(s, i) + 1)

Runs(s) == RunsFrom(s, 1)

RECURSIVE Concat(_)
Concat(ss) == IF ss = << >> THEN << >> ELSE Head(ss) \o Concat(Tail(ss))

IsWord(s) == s # << >> /\ \A i \in DOMAIN s : IsWordChar(s[i])
SameLetters(a, b) == toUpperCase(a) = toUpperCase(b)
AllUpper(s) == \A i \in DOMAIN s : UpperChar(s[i]) = s[i]

\* The value in the case pattern of the occurrence it replaces.
CaseAdjusted(occurrence, value) ==
    IF AllUpper(occurrence) THEN toUpperCase(value)
    ELSE IF UpperChar(occurrence[1]) = occurrence[1]
         THEN capitalizeFirstCharacter(value)
         ELSE value

\* s with every standalone occurrence of the word w replaced by v in the
\* occurrence's case pattern, and nothing else changed.
WithWordReplaced(s, w, v) ==
    LET runs == Runs(s)
    IN  Concat([i \in DOMAIN runs |->
                  IF SameLetters(runs[i], w) THEN CaseAdjusted(runs[i], v)
                  ELSE runs[i]])

\* s with the suffix x of every word that ends in it replaced by v, in upper
\* case when the matched ending is all upper case and verbatim otherwise.
WithSuffixReplaced(s, x, v) ==
    LET runs == Runs(s)
        stem(r) == SubSeq(r, 1, Len(r) - Len(x))
        ending(r) == SubSeq(r, Len(r) - Len(x) + 1, Len(r))
    IN  Concat([i \in DOMAIN runs |->
                  IF /\ IsWord(runs[i])
                     /\ Len(runs[i]) >= Len(x)
                     /\ SameLetters(ending(runs[i]), x)
                  THEN stem(runs[i])
                       \o (IF AllUpper(ending(runs[i])) THEN toUpperCase(v) ELSE v)
                  ELSE runs[i]])

Forward == Translated /\ ~call[1].threw /\ ~call[1].reverse /\ origin = << >>
ActiveWords == translationsMap[1].words

\* The value the words table maps the run to, or the run itself.
Mapped(run, table) ==
    IF \E i \in DOMAIN table : SameLetters(run, table[i].k)
    THEN CaseAdjusted(run, table[CHOOSE i \in DOMAIN table :
                                     SameLetters(run, table[i].k)].v)
    ELSE run

\* C2 as stated: in the output of a forward translateSentence every
\* standalone occurrence of a key of the words table stands replaced by the
\* key's value in the occurrence's case pattern.
C2_OccurrencesReplacedInOutput ==
    (Forward /\ ~translationsMap[1].hasSuffixes) =>
        call[1].result =
            LET runs == Runs(call[1].input)
            IN  Concat([i \in DOMAIN runs |-> Mapped(runs[i], ActiveWords)])

\* C2, amended: every pair (w, v) of the words table, w a word, is applied
\* once by a forward translateSentence, and what it is applied to is the
\* sentence as the pairs before it left it: there every standalone
\* occurrence of w is replaced by v in the occurrence's case pattern (upper
\* case, first character capitalized, verbatim) and nothing else changes.
\* A table of one pair and no suffixes table give exactly that output; with
\* more pairs a later pair may rewrite the replacement.
C2_OccurrencesReplacedWhenPairApplied ==
    Forward =>
        LET applied == call[1].words.applied
            steps == call[1].words.steps
        IN  /\ \A i \in DOMAIN ActiveWords :
                  Cardinality({j \in DOMAIN applied :
                      applied[j] = [search |-> ActiveWords[i].k,
                                    replace |-> ActiveWords[i].v]}) = 1
            /\ \A j \in DOMAIN applied :
                  IsWord(applied[j].search) =>
                      steps[j + 1] = WithWordReplaced(steps[j], applied[j].search,
                                                      applied[j].replace)
            /\ (Len(ActiveWords) = 1 /\ ~translationsMap[1].hasSuffixes) =>
                  call[1].result = WithWordReplaced(call[1].input, ActiveWords[1].k,
                                                    ActiveWords[1].v)

\* A forward call in which the pair aa -> ba turned the capitalized "Aa" of
\* the sentence "Aa " into "Ba".
C2_Witness ==
    /\ Forward
    /\ \E j \in DOMAIN call[1].words.applied :
          /\ call[1].words.applied[j] =
                [search |-> <<"a", "a">>, replace |-> <<"b", "a">>]
          /\ call[1].words.steps[j] = <<"A", "a", " ">>
          /\ call[1].words.steps[j + 1] = <<"B", "a", " ">>

\* C3: a suffix pair matches, case-insensitively, wherever the suffix is
\* followed by a word boundary, with no boundary needed before it, so it
\* rewrites the ending of any word; the replacement is upper-cased when the
\* matched ending is all upper case and is verbatim otherwise, a capitalized
\* ending included.
C3_SuffixReplacedAtWordEnd ==
    (Translated /\ ~call[1].threw /\ translationsMap[1].hasSuffixes) =>
        LET applied == call[1].suffixes.applied
            steps == call[1].suffixes.steps
        IN  /\ Len(applied) = Len(translationsMap[1].suffixes)
            /\ Len(steps) = Len(applied) + 1
            /\ steps[1] = Last(call[1].words.steps)
            /\ call[1].result = Last(steps)
            /\ \A j \in DOMAIN applied :
                  IsWord(applied[j].search) =>
                      steps[j + 1] = WithSuffixReplaced(steps[j], applied[j].search,
                                                        applied[j].replace)

\* The suffix pair aa -> ba applied to "1Aa": the ending is matched inside
\* the word and, being capitalized, is replaced verbatim.
C3_Witness ==
    /\ Forward
    /\ translationsMap[1].hasSuffixes
    /\ \E j \in DOMAIN call[1].suffixes.applied :
          /\ call[1].suffixes.applied[j] =
                [search |-> <<"a", "a">>, replace |-> <<"b", "a">>]
          /\ call[1].suffixes.steps[j] = <<"1", "A", "a">>
          /\ call[1].suffixes.steps[j + 1] = <<"1", "b", "a">>

\* The key of the table's pair that the j-th applied pair came from.
AppliedKey(c, j) ==
    IF c.reverse THEN c.words.applied[j].replace ELSE c.words.applied[j].search
AppliedValue(c, j) ==
    IF c.reverse THEN c.words.applied[j].search ELSE c.words.applied[j].replace
Position(table, key) == CHOOSE i \in DOMAIN table : table[i].k = key

\* Each pair is applied to the sentence the pairs before it produced.
Sequential(c) ==
    /\ Len(c.words.steps) = Len(c.words.applied) + 1
    /\ c.words.steps[1] = c.input
    /\ \A j \in DOMAIN c.words.applied :
          c.words.steps[j + 1] =
              translateWholeWord(c.words.steps[j], c.words.applied[j].search,
                                 c.words.applied[j].replace)

\* C10 as stated: whatever the keys, the pairs of the words table are applied
\* one after another in the table's insertion order, in both directions.
C10_AppliedInInsertionOrder ==
    (Translated /\ ~call[1].threw) =>
        /\ Sequential(call[1])
        /\ Len(call[1].words.applied) = Len(ActiveWords)
        /\ \A j \in DOMAIN ActiveWords :
              /\ AppliedKey(call[1], j) = ActiveWords[j].k
              /\ AppliedValue(call[1], j) = ActiveWords[j].v

\* C10, amended: the pairs of the words table are applied one after another,
\* each to the sentence the pairs before it produced, in the order for-in
\* enumerates the table: first the keys that are array indices ("1", "2"),
\* in ascending numeric order, then the other keys in insertion order; the
\* reverse direction walks the same order with key and value swapped.
C10_AppliedInEnumerationOrder ==
    (Translated /\ ~call[1].threw) =>
        LET c == call[1]
            n == Len(ActiveWords)
        IN  /\ Sequential(c)
            /\ Len(c.words.applied) = n
            /\ \A i \in 1..n : \E j \in 1..n :
                  /\ AppliedKey(c, j) = ActiveWords[i].k
                  /\ AppliedValue(c, j) = ActiveWords[i].v
            /\ \A i, j \in 1..n : i < j =>
                  LET a == AppliedKey(c, i)
                      b == AppliedKey(c, j)
                  IN  /\ IsArrayIndex(b) => IsArrayIndex(a)
                      /\ (IsArrayIndex(a) /\ IsArrayIndex(b)) =>
                            IndexValue(a) < IndexValue(b)
                      /\ (~IsArrayIndex(a) /\ ~IsArrayIndex(b)) =>
                            Position(ActiveWords, a) < Position(ActiveWords, b)

\* A reverse call that changed the sentence, over a table whose first
\* inserted key is a name and whose last is an array index, the index being
\* applied first.
C10_Witness ==
    /\ Translated /\ call[1].reverse
    /\ Len(ActiveWords) >= 2
    /\ ~IsArrayIndex(ActiveWords[1].k)
    /\ IsArrayIndex(ActiveWords[Len(ActiveWords)].k)
    /\ IsArrayIndex(AppliedKey(call[1], 1))
    /\ call[1].result # call[1].input

\* Every word of the sentence is all upper case, capitalized or lower case.
RecognizedCasing(s) ==
    \A i \in DOMAIN Runs(s) :
        LET r == Runs(s)[i]
            lower(x) == \A h \in DOMAIN x : x[h] \notin Range(UpperLetters)
        IN  IsWord(r) => AllUpper(r) \/ lower(Tail(r))

\* C7 as stated: for every map and every sentence in the recognized case
\* patterns, translating forward and then back gives the sentence again, up
\* to case.  It is stated here of the non-empty sentences; the empty one
\* comes back as 'Bork'.
C7_RoundTripUpToCase ==
    (origin # << >> /\ origin[1] # << >> /\ RecognizedCasing(origin[1])) =>
        SameLetters(call[1].result, origin[1])

\* The maps and sentences on which no pair interferes with another: no
\* suffixes table; keys and values are words; no value is, up to case, another
\* pair's value or another pair's key; and no word of the sentence is, up to
\* case, a value (unless the value is its own key).
RoundTripSafe(map, s) ==
    /\ s # << >>
    /\ ~map.hasSuffixes
    /\ \A i \in DOMAIN map.words :
          /\ IsWord(map.words[i].k) /\ IsWord(map.words[i].v)
          /\ \A j \in DOMAIN map.words : i # j =>
                /\ ~SameLetters(map.words[i].v, map.words[j].v)
                /\ ~SameLetters(map.words[i].v, map.words[j].k)
          /\ \A r \in DOMAIN Runs(s) :
                SameLetters(Runs(s)[r], map.words[i].v) =>
                    SameLetters(map.words[i].v, map.words[i].k)

\* C7, amended: translating a non-empty sentence forward and then back gives
\* the sentence again, up to case, when the map has no suffixes table, its
\* keys and values are words, no value equals (up to case) another pair's
\* value or key, and no word of the sentence equals (up to case) a value.
C7_RoundTripOfSafeMaps ==
    (origin # << >> /\ RoundTripSafe(translationsMap[1], origin[1])) =>
        SameLetters(call[1].result, origin[1])

\* "Aa " was translated to "Ba " and back to "Aa " under a map of two pairs
\* that do not interfere.
C7_Witness ==
    /\ origin = <<<<"A", "a", " ">>>>
    /\ Len(ActiveWords) = 2
    /\ RoundTripSafe(translationsMap[1], origin[1])
    /\ call[1].input = <<"B", "a", " ">>
    /\ call[1].result = origin[1]

=============================================================================
